---- MODULE Spec2Model ----
(***************************************************************************)
(* Background note-processing pipeline of crumb: the in-memory processing  *)
(* queue and its drain loop (BackgroundProcessingService), the note        *)
(* repository over AsyncStorage (StorageService) and the extraction call.  *)
(*                                                                         *)
(* One step of the model is one synchronous block of JavaScript between    *)
(* two suspension points (await).  A repository call reads the whole       *)
(* collection at one suspension point and writes it back at a later one.   *)
(***************************************************************************)
EXTENDS Integers, Sequences, FiniteSets, TLC

\* ---------------------------------------------------------------- bounds
NumIds == 2
MaxLoops == 2
MaxExtractCalls == 2
MaxFaults == 2
MaxUserCalls == 2
MaxCallbacks == 2
MaxPublished == 2
MaxBodyLen == 2

Ids == 1..NumIds
Loops == 1..MaxLoops
Null == "null"

VARIABLES
  foodLogs,         \* AsyncStorage value under the key 'foodLogs' (a sequence of entries)
  processingQueue,  \* BackgroundProcessingService.processingQueue (a Set: insertion order, no duplicates)
  isProcessing,     \* BackgroundProcessingService.isProcessing
  loops,            \* the running instances of the async function processQueue
  user,             \* a repository call issued by the screens, between its read and its write
  usedIds,          \* ids handed out so far by generateUniqueId
  faults,           \* number of Durable Store reads and writes that threw so far
  userCalls,        \* number of repository calls the screens issued so far
  extractCalls,     \* history: number of extraction requests sent per id
  lateRequests,     \* ids whose extraction request lost the race against the timer and is unanswered
  lastResponse,     \* history: what the last race of processNote ended with, where it is followed
  subscribers,      \* NoteSaveEvents: the Set of subscribed callbacks (insertion order)
  published,        \* history: the events handed to emit, in call order
  delivered,        \* history: the callback invocations made by emit, in call order
  emitOutcome       \* how the last emit call ended for its caller

\* The state of the Note Lifecycle Event Bus.
busVars == <<subscribers, published, delivered, emitOutcome>>

vars == <<foodLogs, processingQueue, isProcessing, loops, user, usedIds, faults, userCalls,
          extractCalls, lateRequests, lastResponse, busVars>>

\* A read or write of the Durable Store that succeeds (ok) or throws.
StoreAccess(ok) ==
  IF ok THEN faults' = faults ELSE faults < MaxFaults /\ faults' = faults + 1

\* ------------------------------------------------------- entries, payloads
\* extractedData as the endpoint sends it: foods / reactions may be absent.
Payloads ==
  { [hasFoods |-> FALSE, foods |-> <<>>, hasReactions |-> FALSE, reactions |-> <<>>],
    [hasFoods |-> TRUE, foods |-> <<"egg">>, hasReactions |-> TRUE, reactions |-> <<"rash">>] }

NoPayload == [hasFoods |-> FALSE, foods |-> <<>>, hasReactions |-> FALSE, reactions |-> <<>>]
SamplePayload == [hasFoods |-> TRUE, foods |-> <<"egg">>, hasReactions |-> TRUE, reactions |-> <<"rash">>]

\* The raw text captured for note i.
TextOf(i) == "note"

\* saveNoteForProcessing: the entry as constructed (timestamp grows with the id,
\* both come from the clock).
NewProcessingEntry(i) ==
  [ id |-> i, timestamp |-> i, text |-> TextOf(i), source |-> "voice",
    foods |-> <<>>, reactions |-> <<>>,
    extractionTimestamp |-> Null,
    processingStatus |-> "processing",
    processingCompletedAt |-> Null,
    processingError |-> Null ]

\* Variant: the status is set, the extracted foods and reactions are not copied.
EntryWithExtractionNoFoods(e, d) ==
  [ e EXCEPT !.extractionTimestamp = "set",
             !.processingStatus = "complete",
             !.processingCompletedAt = "set" ]

\* updateNoteWithExtraction: the object spread that replaces logs[entryIndex].
EntryWithExtraction(e, d) ==
  [ e EXCEPT !.extractionTimestamp = "set",
             !.foods = IF d.hasFoods THEN d.foods ELSE <<>>,
             !.reactions = IF d.hasReactions THEN d.reactions ELSE <<>>,
             !.processingStatus = "complete",
             !.processingCompletedAt = "set" ]

\* Variant: the status is set, the error message is not stored.
EntryMarkedFailedNoError(e, msg) ==
  [ e EXCEPT !.processingStatus = "failed",
             !.processingCompletedAt = "set" ]

\* markNoteProcessingFailed: the object spread that replaces logs[entryIndex].
EntryMarkedFailed(e, msg) ==
  [ e EXCEPT !.processingStatus = "failed",
             !.processingCompletedAt = "set",
             !.processingError = msg ]

\* updateFoodLogEntry: merge of the stored entry and the patch {foods, reactions}
\* the edit modal passes; id and timestamp are kept.
MergedEntry(e, patch) ==
  [ e EXCEPT !.foods = patch.foods, !.reactions = patch.reactions ]

Patches == { [foods |-> <<"milk">>, reactions |-> <<>>] }

\* validateFoodLogEntry: id, timestamp, text and source present, source known.
ValidateFoodLogEntry(e) ==
  /\ e.id # 0
  /\ e.timestamp # 0
  /\ e.text # ""
  /\ e.source \in {"voice", "manual"}

\* ------------------------------------------------------------ collections
RECURSIVE InsertDesc(_, _)
InsertDesc(e, s) ==
  IF s = <<>> THEN <<e>>
  ELSE IF Head(s).timestamp <= e.timestamp THEN <<e>> \o s
  ELSE <<Head(s)>> \o InsertDesc(e, Tail(s))

\* logs.sort((a, b) => new Date(b.timestamp) - new Date(a.timestamp)): stable, newest first.
RECURSIVE SortByTimestampDesc(_)
SortByTimestampDesc(s) ==
  IF Len(s) <= 1 THEN s ELSE InsertDesc(Head(s), SortByTimestampDesc(Tail(s)))

\* getFoodLogs: the parsed and sorted collection; [] when the read throws.
GetFoodLogs(readOk) ==
  IF readOk THEN SortByTimestampDesc(foodLogs) ELSE <<>>

\* logs.findIndex(log => log.id === id), 1-based; 0 stands for -1.
FindIndex(logs, i) ==
  IF \E k \in 1..Len(logs) : logs[k].id = i
  THEN CHOOSE k \in 1..Len(logs) :
         /\ logs[k].id = i
         /\ \A j \in 1..(k - 1) : logs[j].id # i
  ELSE 0

\* updateNoteWithExtraction lines 553-570: the copy of the collection with the
\* entry replaced, and whether the entry was found.
ExtractionCopy(logs, i, d) ==
  LET k == FindIndex(logs, i)
  IN [found |-> k # 0,
      logs |-> IF k = 0 THEN logs ELSE [logs EXCEPT ![k] = EntryWithExtraction(logs[k], d)]]

\* Variant: an id that is not found is stored as a new failed entry.
MarkFailedCopyUpsert(logs, i, msg) ==
  LET k == FindIndex(logs, i)
  IN [found |-> TRUE,
      logs |-> IF k = 0
               THEN <<EntryMarkedFailed(NewProcessingEntry(i), msg)>> \o logs
               ELSE [logs EXCEPT ![k] = EntryMarkedFailed(logs[k], msg)]]

\* markNoteProcessingFailed lines 598-612: the same for the failure status.
MarkFailedCopy(logs, i, msg) ==
  LET k == FindIndex(logs, i)
  IN [found |-> k # 0,
      logs |-> IF k = 0 THEN logs ELSE [logs EXCEPT ![k] = EntryMarkedFailed(logs[k], msg)]]

\* Variants: no status guard; a guard for failed entries only.
SkipsNoteNever(e) == FALSE
SkipsNoteOnlyFailed(e) == e.processingStatus = "failed"

\* processNote lines 89-92: the status guard.
SkipsNote(e) == e.processingStatus # "processing"

\* The stored entry with id i (the first one, as find and findIndex take it).
Stored(i) == \E k \in 1..Len(foodLogs) : foodLogs[k].id = i
EntryOf(i) ==
  foodLogs[CHOOSE k \in 1..Len(foodLogs) :
             foodLogs[k].id = i /\ \A j \in 1..(k - 1) : foodLogs[j].id # i]
StatusIs(i, s) == Stored(i) /\ EntryOf(i).processingStatus = s

\* ----------------------------------------------------- extraction response
\* What Promise.race([fetch, timeout]) ends with, and the JSON body of a 2xx answer.
Bodies ==
  { [isArray |-> a, len |-> n, hasValues |-> v, status |-> s, hasData |-> h, data |-> d] :
      a \in BOOLEAN, n \in {1}, v \in BOOLEAN, s \in {"success", "error"},
      h \in BOOLEAN, d \in Payloads }

NoBody == [isArray |-> FALSE, len |-> 1, hasValues |-> FALSE, status |-> "error",
           hasData |-> FALSE, data |-> NoPayload]

Responses ==
  { [kind |-> k, body |-> NoBody] : k \in {"timeout", "http_error"} }
  \cup
  { [kind |-> "ok", body |-> b] :
      b \in { x \in Bodies : /\ (~x.hasData => x.data = NoPayload)
                             /\ (x.isArray <=> x.hasValues)
                             /\ (x.isArray => x.hasData)
                             /\ (x.status = "error" => ~x.hasData /\ ~x.isArray) } }

\* No race has ended yet.
NoResponse == [kind |-> "none", body |-> NoBody]

\* The JSON bodies of every shape: an object, or an array of 0..MaxBodyLen elements
\* of which the first is described; status and extractedData may be absent
\* ("none"), and are absent where there is nothing to carry them (an empty array,
\* an element without values).
ShapedBodies ==
  { b \in [isArray : BOOLEAN, len : 0..MaxBodyLen, hasValues : BOOLEAN,
           status : {"success", "error", "none"}, hasData : BOOLEAN, data : Payloads] :
      /\ (~b.hasData => b.data = NoPayload)
      /\ (~b.isArray => b.len = 1 /\ ~b.hasValues)
      /\ ((b.isArray /\ (b.len = 0 \/ ~b.hasValues)) =>
            ~b.hasValues /\ b.status = "none" /\ ~b.hasData) }

ShapedResponses ==
  { [kind |-> k, body |-> NoBody] : k \in {"timeout", "http_error"} }
  \cup { [kind |-> "ok", body |-> b] : b \in ShapedBodies }

\* processNote lines 129-145: unwrap extractedData from either response format.
ParseBody(b) ==
  IF b.isArray /\ b.len > 0
  THEN IF b.hasValues /\ b.status = "success" /\ b.hasData
       THEN [ok |-> TRUE, data |-> b.data, msg |-> Null]
       ELSE [ok |-> FALSE, data |-> NoPayload,
             msg |-> "Invalid n8n extraction response format or status"]
  ELSE IF b.status = "success" /\ b.hasData
       THEN [ok |-> TRUE, data |-> b.data, msg |-> Null]
       ELSE [ok |-> FALSE, data |-> NoPayload,
             msg |-> "Invalid extraction response format - expected n8n array or direct object"]

\* processNote lines 121-145: the outcome of the awaited race and of the parsing.
ExtractionOutcome(r) ==
  CASE r.kind = "timeout" ->
         [ok |-> FALSE, data |-> NoPayload, msg |-> "LLM extraction timeout after 60 seconds"]
    [] r.kind = "http_error" ->
         [ok |-> FALSE, data |-> NoPayload, msg |-> "LLM extraction failed: 500"]
    [] OTHER -> ParseBody(r.body)

\* ------------------------------------------------------------ drain loops
\* One instance of the async function processQueue.  entryId is the id taken from
\* the queue; resp, data, err and marked say how far processNote got with it and
\* are kept until the next round of the while loop starts.
IdleLoop ==
  [pc |-> "idle", entryId |-> 0, resp |-> "none", data |-> NoPayload, err |-> Null,
   snap |-> <<>>, marked |-> FALSE]

Range(q) == { q[k] : k \in 1..Len(q) }
Pending(i) == i \in Range(processingQueue)
Active(l) == loops[l].pc \notin {"idle", "escaped"}
ActiveLoops == { l \in Loops : Active(l) }
BeingProcessed(i) ==
  \E l \in Loops : loops[l].entryId = i /\ loops[l].pc \notin {"idle", "next", "escaped"}

HasFreeLoop == \E l \in Loops : loops[l].pc = "idle"
FreeLoop == CHOOSE l \in Loops : loops[l].pc = "idle" /\ \A m \in 1..(l - 1) : loops[m].pc # "idle"

Bump(n) == IF n < MaxExtractCalls THEN n + 1 ELSE n

\* Variant: the early return without the isProcessing test.
ProcessQueueReturnsEarlyNoFlag(q) == Len(q) = 0

\* processQueue lines 52-54: the early return.
ProcessQueueReturnsEarly(q) == isProcessing \/ Len(q) = 0

\* processQueue lines 60-64: take the first pending id and call processNote,
\* which suspends at the read of getFoodLogs.
ItemStarted(q) == [IdleLoop EXCEPT !.pc = "fetch", !.entryId = Head(q)]

\* processQueue() called with the pending set q: lines 51-64 up to the first await.
ProcessQueueFrom(q) ==
  IF ProcessQueueReturnsEarly(q)
  THEN /\ processingQueue' = q
       /\ UNCHANGED <<isProcessing, loops>>
  ELSE /\ HasFreeLoop
       /\ isProcessing' = TRUE
       /\ processingQueue' = Tail(q)
       /\ loops' = [loops EXCEPT ![FreeLoop] = ItemStarted(q)]

\* Set.add: no effect when the id is already pending.
SetAdd(q, i) == IF i \in Range(q) THEN q ELSE Append(q, i)

\* addToProcessingQueue lines 35-40: Set.add, then processQueue() unless running.
Enqueue(i) ==
  IF ~isProcessing
  THEN ProcessQueueFrom(SetAdd(processingQueue, i))
  ELSE /\ processingQueue' = SetAdd(processingQueue, i)
       /\ UNCHANGED <<isProcessing, loops>>

\* addToProcessingQueue(entryId)
AddToProcessingQueue(i) ==
  /\ Enqueue(i)
  /\ UNCHANGED <<foodLogs, user, usedIds, faults, userCalls, extractCalls>>
  /\ UNCHANGED <<lateRequests, lastResponse, busVars>>

\* processQueue() called by the application (App.js useEffect).
ProcessQueueCall ==
  /\ ProcessQueueFrom(processingQueue)
  /\ UNCHANGED <<foodLogs, user, usedIds, faults, userCalls, extractCalls>>
  /\ UNCHANGED <<lateRequests, lastResponse, busVars>>

\* Variant: the flag is reset, the pending ids are kept.
ClearQueueFlagOnly ==
  /\ isProcessing' = FALSE
  /\ UNCHANGED <<foodLogs, processingQueue, loops, user, usedIds, faults, userCalls,
                 extractCalls>>
  /\ UNCHANGED <<lateRequests, lastResponse, busVars>>

\* clearQueue()
ClearQueue ==
  /\ processingQueue' = <<>>
  /\ isProcessing' = FALSE
  /\ UNCHANGED <<foodLogs, loops, user, usedIds, faults, userCalls, extractCalls>>
  /\ UNCHANGED <<lateRequests, lastResponse, busVars>>

\* processNote lines 82-119: the note is looked up; not found throws, a status
\* other than processing returns, otherwise the extraction request is sent.
LoopFetch(l, readOk) ==
  /\ loops[l].pc = "fetch"
  /\ LET i == loops[l].entryId
         logs == GetFoodLogs(readOk)
         k == FindIndex(logs, i)
     IN IF k = 0
        THEN /\ loops' = [loops EXCEPT ![l].pc = "mark1_read", ![l].err = "Note not found"]
             /\ UNCHANGED extractCalls
        ELSE IF SkipsNote(logs[k])
        THEN /\ loops' = [loops EXCEPT ![l].pc = "next"]
             /\ UNCHANGED extractCalls
        ELSE /\ loops' = [loops EXCEPT ![l].pc = "extract"]
             /\ extractCalls' = [extractCalls EXCEPT ![i] = Bump(@)]
  /\ StoreAccess(readOk)
  /\ UNCHANGED <<foodLogs, processingQueue, isProcessing, user, usedIds, userCalls>>
  /\ UNCHANGED <<lateRequests, lastResponse, busVars>>

\* processNote lines 121-148: the race ends; a failure is thrown to the catch block,
\* a success calls updateNoteWithExtraction, which suspends at its read.
RaceEnds(l, r) ==
  /\ loops[l].pc = "extract"
  /\ LET out == ExtractionOutcome(r)
     IN loops' = IF out.ok
                 THEN [loops EXCEPT ![l].pc = "upd_read", ![l].resp = "success",
                                    ![l].data = out.data]
                 ELSE [loops EXCEPT ![l].pc = "mark1_read", ![l].resp = "failure",
                                    ![l].err = out.msg]
  /\ UNCHANGED <<foodLogs, processingQueue, isProcessing, user, usedIds, faults, userCalls,
                 extractCalls, busVars>>

\* The race ends; what becomes of a request that lost it is not followed.
LoopExtract(l, r) ==
  /\ RaceEnds(l, r)
  /\ UNCHANGED <<lateRequests, lastResponse>>

\* The race ends; what it ended with is kept.
LoopExtractShapes(l, r) ==
  /\ RaceEnds(l, r)
  /\ lastResponse' = r
  /\ UNCHANGED lateRequests

\* The race ends; a request that lost it against the timer is remembered as unanswered.
LoopExtractTracked(l, r) ==
  /\ RaceEnds(l, r)
  /\ lateRequests' = IF r.kind = "timeout" THEN lateRequests \cup {loops[l].entryId}
                                            ELSE lateRequests
  /\ UNCHANGED lastResponse

\* Variant: the answer of an abandoned request is stored like one that won the race.
AbandonedResultApplied(logs, i, r) ==
  IF ExtractionOutcome(r).ok
  THEN ExtractionCopy(logs, i, ExtractionOutcome(r).data).logs
  ELSE logs

\* processNote line 121: the fetch promise that lost the race has no other handler
\* than the race, so its result changes nothing.
AbandonedResult(logs, i, r) == logs

\* The endpoint answers a request that was abandoned at the timeout.
LateResponse(i, r) ==
  /\ i \in lateRequests
  /\ r.kind # "timeout"
  /\ lateRequests' = lateRequests \ {i}
  /\ UNCHANGED lastResponse
  /\ foodLogs' = AbandonedResult(foodLogs, i, r)
  /\ UNCHANGED <<processingQueue, isProcessing, loops, user, usedIds, faults, userCalls,
                 extractCalls, busVars>>

\* updateNoteWithExtraction lines 553-572: read, find, replace the entry in the copy.
LoopUpdRead(l, readOk) ==
  /\ loops[l].pc = "upd_read"
  /\ LET copy == ExtractionCopy(GetFoodLogs(readOk), loops[l].entryId, loops[l].data)
     IN loops' = IF ~copy.found
                 THEN [loops EXCEPT ![l].pc = "mark1_read",
                                    ![l].err = "Failed to update note with extraction results"]
                 ELSE [loops EXCEPT ![l].pc = "upd_write", ![l].snap = copy.logs]
  /\ StoreAccess(readOk)
  /\ UNCHANGED <<foodLogs, processingQueue, isProcessing, user, usedIds, userCalls,
                 extractCalls>>
  /\ UNCHANGED <<lateRequests, lastResponse, busVars>>

\* triggerProcessingCompleteNotification(entryId, foodCount, reactionCount): writes a
\* log line; nothing is handed to NoteSaveEvents.
TriggerProcessingCompleteNotification(log, i, d) == log

\* updateNoteWithExtraction lines 573-587 and processNote lines 150-159: the write
\* lands (the updateMetadata call after it cannot throw and its result is not looked
\* at), the notification is triggered and processNote returns; or the write throws
\* and false is returned.
LoopUpdWrite(l, writeOk) ==
  /\ loops[l].pc = "upd_write"
  /\ IF writeOk
     THEN /\ foodLogs' = loops[l].snap
          /\ loops' = [loops EXCEPT ![l].pc = "next", ![l].snap = <<>>]
          /\ published' = TriggerProcessingCompleteNotification(
                              published, loops[l].entryId, loops[l].data)
     ELSE /\ loops' = [loops EXCEPT ![l].pc = "mark1_read", ![l].snap = <<>>,
                                    ![l].err = "Failed to update note with extraction results"]
          /\ UNCHANGED <<foodLogs, published>>
  /\ StoreAccess(writeOk)
  /\ UNCHANGED <<processingQueue, isProcessing, user, usedIds, userCalls, extractCalls>>
  /\ UNCHANGED <<lateRequests, lastResponse, subscribers, delivered, emitOutcome>>

\* Variant: the error of the write is thrown on to the caller.
MarkWriteErrorThrows == "throws"

\* markNoteProcessingFailed lines 626-629: what a throwing write ends with.
MarkWriteErrorResult == "returns_false"

\* Where the loop goes when a markNoteProcessingFailed call is over: the first call
\* (processNote's catch, line 163) is followed by the rethrow and the second call
\* (processQueue's catch, line 67); the second by the next round of the while loop.
AfterMark(l, persisted) ==
  [loops EXCEPT ![l].pc = IF loops[l].pc \in {"mark1_read", "mark1_write"}
                          THEN "mark2_read" ELSE "next",
                ![l].snap = <<>>,
                ![l].marked = loops[l].marked \/ persisted]

\* markNoteProcessingFailed lines 598-612: read, find, replace the entry in the copy.
LoopMarkRead(l, readOk) ==
  /\ loops[l].pc \in {"mark1_read", "mark2_read"}
  /\ LET copy == MarkFailedCopy(GetFoodLogs(readOk), loops[l].entryId, loops[l].err)
     IN loops' = IF ~copy.found
                 THEN AfterMark(l, FALSE)
                 ELSE [loops EXCEPT
                         ![l].pc = IF loops[l].pc = "mark1_read" THEN "mark1_write"
                                                                 ELSE "mark2_write",
                         ![l].snap = copy.logs]
  /\ StoreAccess(readOk)
  /\ UNCHANGED <<foodLogs, processingQueue, isProcessing, user, usedIds, userCalls,
                 extractCalls>>
  /\ UNCHANGED <<lateRequests, lastResponse, busVars>>

\* markNoteProcessingFailed lines 615-629: the write lands, or throws.
LoopMarkWrite(l, writeOk) ==
  /\ loops[l].pc \in {"mark1_write", "mark2_write"}
  /\ IF writeOk
     THEN /\ foodLogs' = loops[l].snap
          /\ loops' = AfterMark(l, TRUE)
     ELSE /\ UNCHANGED foodLogs
          /\ loops' = IF MarkWriteErrorResult = "returns_false" \/ loops[l].pc = "mark1_write"
                      THEN AfterMark(l, FALSE)
                      ELSE [loops EXCEPT ![l].pc = "escaped", ![l].snap = <<>>]
  /\ StoreAccess(writeOk)
  /\ UNCHANGED <<processingQueue, isProcessing, user, usedIds, userCalls, extractCalls>>
  /\ UNCHANGED <<lateRequests, lastResponse, busVars>>

\* Variant: the loop ends after one id, whatever is pending.
LoopNextOnce(l) ==
  /\ loops[l].pc = "next"
  /\ loops' = [loops EXCEPT ![l] = IdleLoop]
  /\ isProcessing' = FALSE
  /\ UNCHANGED <<foodLogs, processingQueue, user, usedIds, faults, userCalls, extractCalls>>
  /\ UNCHANGED <<lateRequests, lastResponse, busVars>>

\* processQueue lines 59-73: the next round of the while loop, or its end.
LoopNext(l) ==
  /\ loops[l].pc = "next"
  /\ IF Len(processingQueue) > 0
     THEN /\ loops' = [loops EXCEPT ![l] = ItemStarted(processingQueue)]
          /\ processingQueue' = Tail(processingQueue)
          /\ UNCHANGED isProcessing
     ELSE /\ loops' = [loops EXCEPT ![l] = IdleLoop]
          /\ isProcessing' = FALSE
          /\ UNCHANGED processingQueue
  /\ UNCHANGED <<foodLogs, user, usedIds, faults, userCalls, extractCalls>>
  /\ UNCHANGED <<lateRequests, lastResponse, busVars>>

\* ------------------------------------------------ Note Lifecycle Event Bus
\* NOTE_SAVE_EVENT_TYPES and the payload fields the model follows.
EventTypes ==
  { "placeholder_added", "placeholder_hydrated", "placeholder_removed",
    "note_saved", "extraction_completed", "extraction_found_nothing" }

PlaceholderAdded(t) == [type |-> "placeholder_added", tempId |-> t, entryId |-> 0]
PlaceholderHydrated(t, i) == [type |-> "placeholder_hydrated", tempId |-> t, entryId |-> i]
PlaceholderRemoved(t) == [type |-> "placeholder_removed", tempId |-> t, entryId |-> 0]

\* Variant: no try/catch around the callback, its error leaves forEach and emit.
SubscriberErrorThrown == "thrown"

\* emit lines 278-282: what becomes of an error thrown by a callback.
SubscriberErrorResult == "logged"

\* emit lines 286-293: what becomes of an error thrown by posthog.capture.
AnalyticsErrorResult == "swallowed"

\* emit lines 277-283: subscribers.forEach, every callback called with the event in
\* insertion order; throwers are the callbacks that throw when called (threw in the
\* record of the call).
RECURSIVE ForEachSubscriber(_, _, _)
ForEachSubscriber(subs, ev, throwers) ==
  IF subs = <<>> THEN [calls |-> <<>>, thrown |-> FALSE]
  ELSE LET call == [callback |-> Head(subs), event |-> ev, threw |-> Head(subs) \in throwers]
       IN IF Head(subs) \in throwers /\ SubscriberErrorResult # "logged"
          THEN [calls |-> <<call>>, thrown |-> TRUE]
          ELSE LET rest == ForEachSubscriber(Tail(subs), ev, throwers)
               IN [calls |-> <<call>> \o rest.calls, thrown |-> rest.thrown]

\* emit(event): the callbacks, then the analytics capture (not reached when forEach threw).
Emit(ev, throwers, analyticsThrows) ==
  LET each == ForEachSubscriber(subscribers, ev, throwers)
  IN /\ published' = Append(published, ev)
     /\ delivered' = delivered \o each.calls
     /\ emitOutcome' = IF each.thrown \/ (analyticsThrows /\ AnalyticsErrorResult # "swallowed")
                       THEN "thrown" ELSE "returned"
     /\ UNCHANGED subscribers

\* ------------------------------------------- repository calls of the screens
\* A call of saveNoteForProcessing, updateFoodLogEntry or deleteFoodLogEntry: at its
\* write (pc "write") or returned to its caller, who has not resumed yet (pc "done").
\* temp is the tempId of the capture flow that made the call, 0 for any other caller.
IdleUser ==
  [pc |-> "idle", op |-> "none", id |-> 0, temp |-> 0, snap |-> <<>>, result |-> "none",
   readFailed |-> FALSE, wrote |-> FALSE, metaFailed |-> FALSE]

\* generateUniqueId: Date.now() and a random suffix; a later call gives a later id,
\* two calls are taken to differ in the clock reading or in the suffix.
GeneratedIds == { i \in Ids : i \notin usedIds /\ \A j \in usedIds : j < i }

\* saveNoteForProcessing line 482: entryData.id || this.generateUniqueId()
EntryId(d, g) == IF d # 0 THEN d ELSE g

\* A call that returns before any write: validation failed or the entry was not found.
ReturnsAtOnce(op, i, t, readOk) ==
  [IdleUser EXCEPT !.pc = "done", !.op = op, !.id = i, !.temp = t, !.result = "failure",
                   !.readFailed = ~readOk]

\* saveNoteForProcessing lines 481-516 called with the draft id d (0: none given):
\* build the entry, validate, read, prepend.
SaveNoteRead(d, g, t, readOk) ==
  /\ user.pc = "idle"
  /\ IF d = 0 THEN g \in GeneratedIds ELSE g = d
  /\ LET e == NewProcessingEntry(EntryId(d, g))
     IN user' = IF ValidateFoodLogEntry(e)
                THEN [IdleUser EXCEPT !.pc = "write", !.op = "save", !.id = e.id, !.temp = t,
                                      !.snap = <<e>> \o GetFoodLogs(readOk),
                                      !.readFailed = ~readOk]
                ELSE ReturnsAtOnce("save", e.id, t, TRUE)
  /\ usedIds' = usedIds \cup {EntryId(d, g)}
  /\ UNCHANGED <<foodLogs, processingQueue, isProcessing, loops, extractCalls, lateRequests, lastResponse>>
  /\ StoreAccess(readOk)
  /\ userCalls < MaxUserCalls
  /\ userCalls' = userCalls + 1

\* saveNoteForProcessing called by any caller of the repository.
SaveNoteForProcessing(d, g, readOk) ==
  /\ SaveNoteRead(d, g, 0, readOk)
  /\ UNCHANGED busVars

\* updateFoodLogEntry lines 241-263: read, find, merge, validate.
UpdateEntryRead(i, patch, readOk) ==
  /\ user.pc = "idle"
  /\ LET logs == GetFoodLogs(readOk)
         k == FindIndex(logs, i)
     IN user' = IF k # 0 /\ ValidateFoodLogEntry(MergedEntry(logs[k], patch))
                THEN [IdleUser EXCEPT !.pc = "write", !.op = "update", !.id = i,
                                      !.snap = [logs EXCEPT ![k] = MergedEntry(logs[k], patch)],
                                      !.readFailed = ~readOk]
                ELSE ReturnsAtOnce("update", i, 0, readOk)
  /\ UNCHANGED <<foodLogs, processingQueue, isProcessing, loops, usedIds, extractCalls,
                 lateRequests, lastResponse, busVars>>
  /\ StoreAccess(readOk)
  /\ userCalls < MaxUserCalls
  /\ userCalls' = userCalls + 1

\* logs.filter(log => log.id !== id)
RECURSIVE FilterOut(_, _)
FilterOut(logs, i) ==
  IF logs = <<>> THEN <<>>
  ELSE IF Head(logs).id = i THEN FilterOut(Tail(logs), i)
  ELSE <<Head(logs)>> \o FilterOut(Tail(logs), i)

\* deleteFoodLogEntry lines 290-296: read, filter, give up when nothing was removed.
DeleteEntryRead(i, readOk) ==
  /\ user.pc = "idle"
  /\ LET logs == GetFoodLogs(readOk)
     IN user' = IF Len(FilterOut(logs, i)) # Len(logs)
                THEN [IdleUser EXCEPT !.pc = "write", !.op = "delete", !.id = i,
                                      !.snap = FilterOut(logs, i), !.readFailed = ~readOk]
                ELSE ReturnsAtOnce("delete", i, 0, readOk)
  /\ UNCHANGED <<foodLogs, processingQueue, isProcessing, loops, usedIds, extractCalls,
                 lateRequests, lastResponse, busVars>>
  /\ StoreAccess(readOk)
  /\ userCalls < MaxUserCalls
  /\ userCalls' = userCalls + 1

\* How the Durable Store behaves from the setItem of the collection to the end of
\* the call: all accesses work, the setItem throws, an updateMetadata call fails
\* (it returns false), or the getMetadata call of the stats update (line 530, only
\* in the save calls) cannot read the record and returns null.
WriteOutcomes(op) ==
  {"ok", "write_throws", "metadata_fails"}
    \cup (IF op = "save" THEN {"stats_unreadable"} ELSE {})

\* The value the call returns: the catch block's failure value when setItem threw,
\* and also when currentStats is null (currentStats.stats throws a TypeError inside
\* the try); the result of updateMetadata is not looked at.
CallResult(op, o) ==
  CASE o = "write_throws" -> "failure"
    [] o = "stats_unreadable" -> "failure"
    [] OTHER -> "success"

\* From AsyncStorage.setItem to the return of the three calls above: the copy
\* replaces the collection unless setItem throws, the metadata record (which no
\* other part of the model reads) is updated, the call returns.
RepositoryWrite(o) ==
  /\ user.pc = "write"
  /\ o \in WriteOutcomes(user.op)
  /\ foodLogs' = IF o = "write_throws" THEN foodLogs ELSE user.snap
  /\ user' = [user EXCEPT !.pc = "done", !.snap = <<>>,
                          !.result = CallResult(user.op, o),
                          !.wrote = (o # "write_throws"),
                          !.metaFailed = (o \in {"metadata_fails", "stats_unreadable"})]
  /\ UNCHANGED <<processingQueue, isProcessing, loops, usedIds, extractCalls, lateRequests, lastResponse,
                 busVars>>
  /\ StoreAccess(o = "ok")
  /\ UNCHANGED userCalls

\* The caller of updateFoodLogEntry or deleteFoodLogEntry (ManageNotesScreen), or any
\* other caller than the capture flow, resumes with the returned value.
RepositoryReturn ==
  /\ user.pc = "done"
  /\ user.temp = 0
  /\ user' = IdleUser
  /\ UNCHANGED <<foodLogs, processingQueue, isProcessing, loops, usedIds, faults, userCalls,
                 extractCalls, lateRequests, lastResponse, busVars>>

\* updateFoodLogEntry lines 266-272 and the like, when the metadata record is absent
\* and cannot be created: the setItem of the collection lands, updateMetadata is
\* called and suspends at getMetadata (line 422).
UpdateMetadataCalled ==
  /\ user.pc = "write"
  /\ foodLogs' = user.snap
  /\ user' = [user EXCEPT !.pc = "meta_get", !.snap = <<>>, !.wrote = TRUE]
  /\ UNCHANGED <<processingQueue, isProcessing, loops, usedIds, faults, userCalls,
                 extractCalls, lateRequests, lastResponse, busVars>>

\* getMetadata lines 404-412 and updateMetadata lines 423-424: the read gives nothing
\* or throws, null is returned, initializeMetadata is called.
GetMetadataReturnsNull ==
  /\ user.pc = "meta_get"
  /\ user' = [user EXCEPT !.pc = "meta_init"]
  /\ UNCHANGED <<foodLogs, processingQueue, isProcessing, loops, usedIds, faults, userCalls,
                 extractCalls, lateRequests, lastResponse, busVars>>

\* initializeMetadata lines 57-79 and updateMetadata line 425: the record is not
\* created, the error is caught and logged, and updateMetadata calls itself, which
\* suspends at getMetadata again.
InitializeMetadataFails ==
  /\ user.pc = "meta_init"
  /\ user' = [user EXCEPT !.pc = "meta_get", !.metaFailed = TRUE]
  /\ UNCHANGED <<foodLogs, processingQueue, isProcessing, loops, usedIds, faults, userCalls,
                 extractCalls, lateRequests, lastResponse, busVars>>

\* ------------------------------------------------------- the capture flow
\* handleSaveNote lines 315-353: PlaceholderAdded is emitted for the new tempId, then
\* saveNoteForProcessing is called without an id and suspends at its read.
HandleSaveNote(g, readOk) ==
  /\ SaveNoteRead(0, g, userCalls + 1, readOk)
  /\ Emit(PlaceholderAdded(userCalls + 1), {}, FALSE)

\* Variant: the result of the save is not looked at.
SaveSucceededAlways(res) == TRUE

\* handleSaveNote line 355: saveResult?.success
SaveSucceeded(res) == res = "success"

\* handleSaveNote lines 355-380, resumed with the result of the save: on success
\* PlaceholderHydrated is emitted and the id is enqueued (addToProcessingQueue runs
\* to its first suspension), otherwise PlaceholderRemoved is emitted.
HandleSaveNoteResume ==
  /\ user.pc = "done"
  /\ user.temp # 0
  /\ IF SaveSucceeded(user.result)
     THEN /\ Emit(PlaceholderHydrated(user.temp, user.id), {}, FALSE)
          /\ Enqueue(user.id)
     ELSE /\ Emit(PlaceholderRemoved(user.temp), {}, FALSE)
          /\ UNCHANGED <<processingQueue, isProcessing, loops>>
  /\ user' = IdleUser
  /\ UNCHANGED <<foodLogs, usedIds, faults, userCalls, extractCalls, lateRequests, lastResponse>>

\* ---------------------------------------------- the bus called on its own
Callbacks == 1..MaxCallbacks

\* Variant: a new subscriber is sent the events published so far.
ReplayedAll(c) ==
  [k \in 1..Len(published) |-> [callback |-> c, event |-> published[k], threw |-> FALSE]]

\* subscribe lines 296-299: the calls made to a callback when it subscribes (none,
\* the bus keeps no events).
Replayed(c) == <<>>

\* subscribe(callback): Set.add
Subscribe(c) ==
  /\ subscribers' = SetAdd(subscribers, c)
  /\ delivered' = delivered \o Replayed(c)
  /\ UNCHANGED <<foodLogs, processingQueue, isProcessing, loops, user, usedIds, faults,
                 userCalls, extractCalls, lateRequests, lastResponse, published, emitOutcome>>

\* the function subscribe returns: Set.delete
Unsubscribe(c) ==
  /\ subscribers' = SelectSeq(subscribers, LAMBDA x : x # c)
  /\ UNCHANGED <<foodLogs, processingQueue, isProcessing, loops, user, usedIds, faults,
                 userCalls, extractCalls, lateRequests, lastResponse, published, delivered, emitOutcome>>

\* One of the emit functions called by a publisher.
Publish(ev, throwers, analyticsThrows) ==
  /\ Len(published) < MaxPublished
  /\ Emit(ev, throwers, analyticsThrows)
  /\ UNCHANGED <<foodLogs, processingQueue, isProcessing, loops, user, usedIds, faults,
                 userCalls, extractCalls, lateRequests, lastResponse>>

\* ------------------------------------------------------------------- Init
InitStatuses == {"absent", "processing", "complete", "failed"}

InitEntry(i, s) ==
  CASE s = "complete" -> EntryWithExtraction(NewProcessingEntry(i), SamplePayload)
    [] s = "failed" ->
         EntryMarkedFailed(NewProcessingEntry(i), "LLM extraction timeout after 60 seconds")
    [] OTHER -> NewProcessingEntry(i)

\* The collection as an earlier run left it: newest first.
RECURSIVE InitLogs(_, _)
InitLogs(st, n) ==
  IF n = 0 THEN <<>>
  ELSE IF st[n] = "absent" THEN InitLogs(st, n - 1)
  ELSE <<InitEntry(n, st[n])>> \o InitLogs(st, n - 1)

Init ==
  /\ \E st \in [Ids -> InitStatuses] :
       /\ foodLogs = InitLogs(st, NumIds)
       /\ usedIds = { i \in Ids : st[i] # "absent" }
  /\ processingQueue = <<>>
  /\ isProcessing = FALSE
  /\ loops = [l \in Loops |-> IdleLoop]
  /\ user = IdleUser
  /\ faults = 0
  /\ userCalls = 0
  /\ extractCalls = [i \in Ids |-> 0]
  /\ lateRequests = {}
  /\ lastResponse = NoResponse
  /\ subscribers = <<>>
  /\ published = <<>>
  /\ delivered = <<>>
  /\ emitOutcome = "none"

\* ---------------------------------------------------------- specifications
\* The Worker alone, the Durable Store working.
NextWorker ==
  \/ \E i \in Ids : AddToProcessingQueue(i)
  \/ ProcessQueueCall
  \/ \E l \in Loops : LoopFetch(l, TRUE)
  \/ \E l \in Loops, r \in Responses : LoopExtract(l, r)
  \/ \E l \in Loops : LoopUpdRead(l, TRUE)
  \/ \E l \in Loops : LoopUpdWrite(l, TRUE)
  \/ \E l \in Loops : LoopMarkRead(l, TRUE)
  \/ \E l \in Loops : LoopMarkWrite(l, TRUE)
  \/ \E l \in Loops : LoopNext(l)

SpecWorker == Init /\ [][NextWorker]_vars

\* The Worker alone, any read or write of the Durable Store may throw.
NextWorkerFaults ==
  \/ \E i \in Ids : AddToProcessingQueue(i)
  \/ ProcessQueueCall
  \/ \E l \in Loops, ok \in BOOLEAN : LoopFetch(l, ok)
  \/ \E l \in Loops, r \in Responses : LoopExtract(l, r)
  \/ \E l \in Loops, ok \in BOOLEAN : LoopUpdRead(l, ok)
  \/ \E l \in Loops, ok \in BOOLEAN : LoopUpdWrite(l, ok)
  \/ \E l \in Loops, ok \in BOOLEAN : LoopMarkRead(l, ok)
  \/ \E l \in Loops, ok \in BOOLEAN : LoopMarkWrite(l, ok)
  \/ \E l \in Loops : LoopNext(l)

SpecWorkerFaults == Init /\ [][NextWorkerFaults]_vars

\* The application: the capture flow (the only caller of addToProcessingQueue), the
\* edits and deletions of the list screen, processQueue() at startup and the drain
\* loop, interleaved at every suspension point, the Durable Store working.
Next ==
  \/ ProcessQueueCall
  \/ \E l \in Loops : LoopFetch(l, TRUE)
  \/ \E l \in Loops, r \in Responses : LoopExtract(l, r)
  \/ \E l \in Loops : LoopUpdRead(l, TRUE)
  \/ \E l \in Loops : LoopUpdWrite(l, TRUE)
  \/ \E l \in Loops : LoopMarkRead(l, TRUE)
  \/ \E l \in Loops : LoopMarkWrite(l, TRUE)
  \/ \E l \in Loops : LoopNext(l)
  \/ \E g \in Ids : HandleSaveNote(g, TRUE)
  \/ HandleSaveNoteResume
  \/ \E i \in Ids, p \in Patches : UpdateEntryRead(i, p, TRUE)
  \/ \E i \in Ids : DeleteEntryRead(i, TRUE)
  \/ RepositoryWrite("ok")
  \/ RepositoryReturn

Spec == Init /\ [][Next]_vars

\* The public operations of the service: addToProcessingQueue, processQueue, clearQueue.
NextService ==
  \/ NextWorker
  \/ ClearQueue

SpecService == Init /\ [][NextService]_vars


\* Every suspension of a drain loop ends: the Durable Store answers, and the race of
\* the request against the 60 s timer is decided by the timer at the latest.
LoopStep ==
  \E l \in Loops :
    \/ LoopFetch(l, TRUE)
    \/ \E r \in Responses : LoopExtract(l, r)
    \/ LoopUpdRead(l, TRUE)
    \/ LoopUpdWrite(l, TRUE)
    \/ LoopMarkRead(l, TRUE)
    \/ LoopMarkWrite(l, TRUE)
    \/ LoopNext(l)

FairSpecWorker == SpecWorker /\ WF_vars(LoopStep)

\* The application with its startup call of processQueue() and the steps of the drain
\* loop taken whenever they can be.
FairSpec == Spec /\ WF_vars(ProcessQueueCall) /\ WF_vars(LoopStep)
FairSpecWorkerFaults == SpecWorkerFaults /\ WF_vars(LoopStep)

\* The Worker alone, the Durable Store working, with the requests that lost the
\* race against the timer followed until the endpoint answers them.
NextWorkerLate ==
  \/ \E i \in Ids : AddToProcessingQueue(i)
  \/ ProcessQueueCall
  \/ \E l \in Loops : LoopFetch(l, TRUE)
  \/ \E l \in Loops, r \in Responses : LoopExtractTracked(l, r)
  \/ \E l \in Loops : LoopUpdRead(l, TRUE)
  \/ \E l \in Loops : LoopUpdWrite(l, TRUE)
  \/ \E l \in Loops : LoopMarkRead(l, TRUE)
  \/ \E l \in Loops : LoopMarkWrite(l, TRUE)
  \/ \E l \in Loops : LoopNext(l)
  \/ \E i \in Ids, r \in Responses : LateResponse(i, r)

SpecWorkerLate == Init /\ [][NextWorkerLate]_vars

\* The Worker alone, the Durable Store working, with answers of every shape.
NextWorkerShapes ==
  \/ \E i \in Ids : AddToProcessingQueue(i)
  \/ ProcessQueueCall
  \/ \E l \in Loops : LoopFetch(l, TRUE)
  \/ \E l \in Loops, r \in ShapedResponses : LoopExtractShapes(l, r)
  \/ \E l \in Loops : LoopUpdRead(l, TRUE)
  \/ \E l \in Loops : LoopUpdWrite(l, TRUE)
  \/ \E l \in Loops : LoopMarkRead(l, TRUE)
  \/ \E l \in Loops : LoopMarkWrite(l, TRUE)
  \/ \E l \in Loops : LoopNext(l)

SpecWorkerShapes == Init /\ [][NextWorkerShapes]_vars

\* Variant: no timer takes part in the race.
SilentResponsesNoTimer == {}

\* What the race of processNote can end with when the endpoint never answers: the
\* rejection of the 60 s timer (lines 97-101).
SilentResponses == { r \in Responses : r.kind = "timeout" }

\* The Worker alone with an extraction endpoint that never answers.
LoopStepSilent ==
  \E l \in Loops :
    \/ LoopFetch(l, TRUE)
    \/ \E r \in SilentResponses : LoopExtract(l, r)
    \/ LoopMarkRead(l, TRUE)
    \/ LoopMarkWrite(l, TRUE)
    \/ LoopNext(l)

NextSilentEndpoint ==
  \/ \E i \in Ids : AddToProcessingQueue(i)
  \/ ProcessQueueCall
  \/ LoopStepSilent

FairSpecSilentEndpoint == Init /\ [][NextSilentEndpoint]_vars /\ WF_vars(LoopStepSilent)

\* The capture flow and the drain loop, any Durable Store access of the save may fail.
NextCapture ==
  \/ ProcessQueueCall
  \/ \E l \in Loops : LoopFetch(l, TRUE)
  \/ \E l \in Loops, r \in Responses : LoopExtract(l, r)
  \/ \E l \in Loops : LoopUpdRead(l, TRUE)
  \/ \E l \in Loops : LoopUpdWrite(l, TRUE)
  \/ \E l \in Loops : LoopMarkRead(l, TRUE)
  \/ \E l \in Loops : LoopMarkWrite(l, TRUE)
  \/ \E l \in Loops : LoopNext(l)
  \/ \E g \in Ids, ok \in BOOLEAN : HandleSaveNote(g, ok)
  \/ \E o \in WriteOutcomes("save") : RepositoryWrite(o)
  \/ HandleSaveNoteResume

SpecCapture == Init /\ [][NextCapture]_vars

\* The repository called on its own, one call at a time, with any draft id and any
\* Durable Store access failing.
NextRepository ==
  \/ \E d \in Ids \cup {0}, g \in Ids, ok \in BOOLEAN : SaveNoteForProcessing(d, g, ok)
  \/ \E i \in Ids, p \in Patches, ok \in BOOLEAN : UpdateEntryRead(i, p, ok)
  \/ \E i \in Ids, ok \in BOOLEAN : DeleteEntryRead(i, ok)
  \/ \E o \in WriteOutcomes("save") : RepositoryWrite(o)
  \/ RepositoryReturn

SpecRepository == Init /\ [][NextRepository]_vars

\* The event bus on its own: callbacks subscribe and unsubscribe, events are published
\* to callbacks of which any may throw, with an analytics capture that may throw.
InitBus ==
  /\ foodLogs = <<>>
  /\ usedIds = {}
  /\ processingQueue = <<>>
  /\ isProcessing = FALSE
  /\ loops = [l \in Loops |-> IdleLoop]
  /\ user = IdleUser
  /\ faults = 0
  /\ userCalls = 0
  /\ extractCalls = [i \in Ids |-> 0]
  /\ lateRequests = {}
  /\ lastResponse = NoResponse
  /\ subscribers = <<>>
  /\ published = <<>>
  /\ delivered = <<>>
  /\ emitOutcome = "none"

BusEvents == { PlaceholderAdded(1), PlaceholderHydrated(1, 1) }

NextBus ==
  \/ \E c \in Callbacks : Subscribe(c)
  \/ \E c \in Callbacks : Unsubscribe(c)
  \/ \E ev \in BusEvents, throwers \in SUBSET Callbacks, a \in BOOLEAN : Publish(ev, throwers, a)

SpecBus == InitBus /\ [][NextBus]_vars

\* The repository called on its own while the metadata record is absent and cannot
\* be created (reads of its key give nothing or fail, writes of it fail); the
\* accesses of the note collection work and every Durable Store access ends.
MetadataStep ==
  \/ UpdateMetadataCalled
  \/ GetMetadataReturnsNull
  \/ InitializeMetadataFails

NextMetadataAbsent ==
  \/ \E g \in Ids : SaveNoteForProcessing(0, g, TRUE)
  \/ \E i \in Ids, p \in Patches : UpdateEntryRead(i, p, TRUE)
  \/ \E i \in Ids : DeleteEntryRead(i, TRUE)
  \/ MetadataStep
  \/ RepositoryReturn

FairSpecMetadataAbsent == Init /\ [][NextMetadataAbsent]_vars /\ WF_vars(MetadataStep)

\* ------------------------------------------------------------------ claims
Extracting(l) == loops[l].pc = "extract"
Finished(i) == \E l \in Loops : loops[l].entryId = i /\ loops[l].pc = "next"
ExpectedFoods(d) == IF d.hasFoods THEN d.foods ELSE <<>>
ExpectedReactions(d) == IF d.hasReactions THEN d.reactions ELSE <<>>

\* C1: whatever the enqueue calls, at most one extraction call is in flight, and
\* while one is in flight no other drain loop is anywhere in the processing of an
\* id (so no Repository update of an earlier id is still pending).
C1_AtMostOneExtractionInFlight ==
  /\ Cardinality({ l \in Loops : Extracting(l) }) <= 1
  /\ \A l \in Loops : Extracting(l) => \A m \in Loops \ {l} : loops[m].pc = "idle"

\* C1 witness: an extraction call is in flight for one id after the call for
\* another id was made and its processing is over, with the queue used meanwhile.
C1_Witness ==
  \E l \in Loops, i \in Ids :
    /\ Extracting(l)
    /\ i # loops[l].entryId
    /\ extractCalls[i] = 1
    /\ ~BeingProcessed(i)

\* C5: an id enqueued again while it is pending or being processed gets one
\* extraction call, not two: no id ever has more than one call, and a call in
\* flight or answered is the only one made for its id.
C5_OneExtractionPerId ==
  /\ \A i \in Ids : extractCalls[i] <= 1
  /\ \A l \in Loops :
       (Extracting(l) \/ loops[l].resp # "none") => extractCalls[loops[l].entryId] = 1

\* C5 witness: the id is pending again while the extraction call of its first
\* processing is in flight.
C5_Witness ==
  \E l \in Loops :
    /\ Extracting(l)
    /\ Pending(loops[l].entryId)
    /\ extractCalls[loops[l].entryId] = 1

\* C6: when the endpoint answered with success for a note in status processing,
\* the processing of the id ends with the entry complete, foods and reactions
\* those of the answer (empty when absent) and extractionTimestamp set; and a
\* complete entry is not changed by the rest of the drain.
C6_SuccessStored ==
  /\ [](\A l \in Loops :
          (loops[l].pc = "next" /\ loops[l].resp = "success") =>
             /\ StatusIs(loops[l].entryId, "complete")
             /\ EntryOf(loops[l].entryId).foods = ExpectedFoods(loops[l].data)
             /\ EntryOf(loops[l].entryId).reactions = ExpectedReactions(loops[l].data)
             /\ EntryOf(loops[l].entryId).extractionTimestamp # Null)
  /\ [][\A i \in Ids : StatusIs(i, "complete") => (Stored(i)' /\ EntryOf(i)' = EntryOf(i))]_vars

\* C6 witness: a success answer without foods and reactions was stored.
C6_Witness ==
  \E l \in Loops :
    /\ loops[l].pc = "next"
    /\ loops[l].resp = "success"
    /\ ~loops[l].data.hasFoods
    /\ StatusIs(loops[l].entryId, "complete")

\* C9: while a drain loop processes an id that is not stored, no step of it changes
\* the collection, sends an extraction request or leaves the loop by a throw.
C9_NotFoundSkip ==
  /\ [][\A l \in Loops :
          (/\ loops[l].pc \notin {"idle", "next", "escaped"}
           /\ ~Stored(loops[l].entryId)
           /\ loops'[l] # loops[l])
          => /\ foodLogs' = foodLogs
             /\ extractCalls' = extractCalls
             /\ loops'[l].pc \in {"mark1_read", "mark2_read", "next"}]_vars
  /\ [](\A l \in Loops : loops[l].pc # "escaped")

\* C9 witness: the processing of an id that is not stored is over, other entries
\* being stored.
C9_Witness ==
  \E l \in Loops :
    /\ loops[l].pc = "next"
    /\ loops[l].err = "Note not found"
    /\ ~Stored(loops[l].entryId)
    /\ foodLogs # <<>>

\* C10: the fetch of an enqueued entry that is complete or failed ends the
\* processing of the id at once: no extraction request, the collection unchanged.
C10_StatusGuard ==
  [][\A l \in Loops :
       (/\ loops[l].pc = "fetch"
        /\ Stored(loops[l].entryId)
        /\ EntryOf(loops[l].entryId).processingStatus \in {"complete", "failed"}
        /\ loops'[l] # loops[l])
       => /\ loops'[l].pc = "next"
          /\ foodLogs' = foodLogs
          /\ extractCalls' = extractCalls]_vars

\* C10 witness: a complete entry was enqueued, fetched and left alone.
C10_Witness ==
  \E l \in Loops :
    /\ loops[l].pc = "next"
    /\ loops[l].resp = "none"
    /\ loops[l].err = Null
    /\ StatusIs(loops[l].entryId, "complete")
    /\ extractCalls[loops[l].entryId] = 0

\* C2: after any calls of addToProcessingQueue, processQueue and clearQueue, at
\* most one drain loop is running.
C2_AtMostOneDrainLoop == Cardinality(ActiveLoops) <= 1

\* C3: the processingStatus of a stored entry only ever changes from processing to
\* complete or from processing to failed, whatever the interleaving of the Worker
\* and the repository calls.
C3_StatusTransitions ==
  [][\A i \in Ids :
       (Stored(i) /\ Stored(i)') =>
          \/ EntryOf(i)'.processingStatus = EntryOf(i).processingStatus
          \/ /\ EntryOf(i).processingStatus = "processing"
             /\ EntryOf(i)'.processingStatus \in {"complete", "failed"}]_vars

\* C4: every enqueued id is eventually taken from the pending set and its
\* processing by a drain loop comes to an end, also when it was enqueued while a
\* loop was running; the running loop is the only one, and the worker is Draining
\* exactly as long as that loop runs (it is Idle again once the loop has ended).
C4_EnqueuedEventuallyProcessed ==
  /\ \A i \in Ids : Pending(i) ~> ~Pending(i)
  /\ \A i \in Ids : BeingProcessed(i) ~> Finished(i)
  /\ [](isProcessing <=> ActiveLoops # {})
  /\ [](Cardinality(ActiveLoops) <= 1)
  /\ \A l \in Loops : (loops[l].pc = "next" /\ processingQueue = <<>>)
                         ~> (~isProcessing \/ processingQueue # <<>>)

\* C4 witness: an id enqueued while the loop was processing another one has been
\* processed by that loop, nothing is pending any more.
C4_Witness ==
  \E l \in Loops, i \in Ids :
    /\ loops[l].pc = "next"
    /\ loops[l].entryId # i
    /\ loops[l].resp # "none"
    /\ extractCalls[i] = 1
    /\ StatusIs(i, "complete")
    /\ processingQueue = <<>>

\* The processing of the id of loop l is over and ended in the failure path.
FailedItem(l) == loops[l].pc = "next" /\ loops[l].err # Null

\* C7 as claimed: when the processing of a note that is still stored failed, for
\* whatever reason, the entry is failed with a processingError, its text unchanged.
C7_FailureMarked ==
  \A l \in Loops :
    (FailedItem(l) /\ Stored(loops[l].entryId)) =>
       /\ EntryOf(loops[l].entryId).processingStatus = "failed"
       /\ EntryOf(loops[l].entryId).processingError # Null
       /\ EntryOf(loops[l].entryId).text = TextOf(loops[l].entryId)

\* C7 amended: the entry is failed with a processingError when one of the two
\* markProcessingFailed calls wrote it; when the Durable Store let none of them
\* through, an entry whose extraction had been requested keeps the status processing.
\* In both cases the text is unchanged and the entry is still stored.
C7_FailureMarkedIfPersisted ==
  \A l \in Loops :
    (FailedItem(l) /\ Stored(loops[l].entryId)) =>
       /\ loops[l].marked =>
            /\ EntryOf(loops[l].entryId).processingStatus = "failed"
            /\ EntryOf(loops[l].entryId).processingError = loops[l].err
       /\ (~loops[l].marked /\ loops[l].resp # "none") =>
            EntryOf(loops[l].entryId).processingStatus = "processing"
       /\ EntryOf(loops[l].entryId).text = TextOf(loops[l].entryId)

\* C7 witness: updateWithExtraction reported a failure after a success answer and
\* the entry was marked failed.
C7_Witness ==
  \E l \in Loops :
    /\ FailedItem(l)
    /\ loops[l].resp = "success"
    /\ loops[l].marked
    /\ StatusIs(loops[l].entryId, "failed")

\* C8: no failure leaves the drain loop by a throw, the failure of
\* markProcessingFailed included: the worker is never left Draining without a
\* loop, the failure path of an id always ends, and the ids that were pending
\* meanwhile are taken and processed by the same loop.
C8_FailuresStayInLoop ==
  /\ [](\A l \in Loops : loops[l].pc # "escaped")
  /\ [](isProcessing => ActiveLoops # {})
  /\ \A l \in Loops : (loops[l].err # Null /\ Active(l)) ~> FailedItem(l)
  /\ \A i \in Ids : (Pending(i) /\ \E l \in Loops : loops[l].err # Null) ~> BeingProcessed(i)

\* C8 witness: both markProcessingFailed calls for a stored entry failed and
\* another id is pending.
C8_Witness ==
  \E l \in Loops :
    /\ FailedItem(l)
    /\ ~loops[l].marked
    /\ loops[l].resp = "failure"
    /\ Stored(loops[l].entryId)
    /\ processingQueue # <<>>

\* C11: after any sequence of Repository operations no two entries of the stored
\* collection have the same id.
C11_UniqueIds ==
  \A j, k \in 1..Len(foodLogs) : j # k => foodLogs[j].id # foodLogs[k].id

TimeoutMessage == "LLM extraction timeout after 60 seconds"

\* The extraction call for id i timed out in this run and the entry was marked failed.
TimedOutFailed(i) ==
  /\ extractCalls[i] > 0
  /\ StatusIs(i, "failed")
  /\ EntryOf(i).processingError = TimeoutMessage

\* C12: the answer of the endpoint to a request that was abandoned at the timeout
\* changes no stored entry, and an entry that was marked failed after a timeout
\* stays stored and failed, with its foods and reactions as they were, in every
\* later step.
C12_LateResponseDiscarded ==
  /\ [][(\E i \in Ids : i \in lateRequests /\ i \notin lateRequests') => foodLogs' = foodLogs]_vars
  /\ [][\A i \in Ids :
          TimedOutFailed(i) =>
            /\ StatusIs(i, "failed")'
            /\ EntryOf(i)'.foods = EntryOf(i).foods
            /\ EntryOf(i)'.reactions = EntryOf(i).reactions
            /\ EntryOf(i)'.processingError = EntryOf(i).processingError]_vars

\* C12 witness: the late answer to a timed-out request has arrived and the entry
\* is failed with the timeout message.
C12_Witness ==
  \E i \in Ids : TimedOutFailed(i) /\ i \notin lateRequests

C14_ProcessingReenqueuedAtStartup ==
  \A i \in Ids :
    (StatusIs(i, "processing") /\ ~Pending(i) /\ ~BeingProcessed(i) /\ user.id # i)
      ~> (~Stored(i) \/ StatusIs(i, "complete") \/ StatusIs(i, "failed"))

\* An event of the given type was published for tempId t.
HasEvent(type, t) ==
  \E k \in 1..Len(published) : published[k].type = type /\ published[k].tempId = t

\* This step publishes the event ev.
Publishes(ev) ==
  /\ Len(published') = Len(published) + 1
  /\ published'[Len(published')] = ev

\* C15: while the save of a capture flow is under way PlaceholderAdded has been
\* published for its tempId and neither of the two other events; a flow that is
\* over has published exactly one of PlaceholderHydrated and PlaceholderRemoved;
\* PlaceholderHydrated is published when the save returned success, with the id
\* of the saved entry, which is enqueued in the same step and not before;
\* PlaceholderRemoved is published when the save returned a failure, and nothing
\* is enqueued then; only ids published in a PlaceholderHydrated are ever enqueued.
C15_CaptureFlowEvents ==
  /\ [](user.temp # 0 =>
          /\ HasEvent("placeholder_added", user.temp)
          /\ ~HasEvent("placeholder_hydrated", user.temp)
          /\ ~HasEvent("placeholder_removed", user.temp))
  /\ [](\A t \in 1..userCalls :
          t # user.temp =>
            /\ HasEvent("placeholder_added", t)
            /\ HasEvent("placeholder_hydrated", t) # HasEvent("placeholder_removed", t))
  /\ [][\A t \in 1..MaxUserCalls, i \in Ids :
          Publishes(PlaceholderHydrated(t, i)) =>
            /\ user.temp = t /\ user.id = i /\ user.result = "success"
            /\ ~Pending(i) /\ ~BeingProcessed(i)
            /\ Pending(i)' \/ BeingProcessed(i)']_vars
  /\ [][\A t \in 1..MaxUserCalls :
          Publishes(PlaceholderRemoved(t)) =>
            /\ user.temp = t /\ user.result = "failure"
            /\ UNCHANGED <<processingQueue, isProcessing, loops>>]_vars
  /\ [](\A i \in Ids :
          (Pending(i) \/ BeingProcessed(i)) =>
             \E k \in 1..Len(published) :
               published[k].type = "placeholder_hydrated" /\ published[k].entryId = i)

\* C15 witness: one capture flow ended with PlaceholderHydrated and its note was
\* enqueued and processed, another one ended with PlaceholderRemoved.
C15_Witness ==
  \E t, u \in 1..MaxUserCalls, i \in Ids :
    /\ user.pc = "idle"
    /\ PlaceholderHydrated(t, i) \in Range(published)
    /\ extractCalls[i] = 1
    /\ HasEvent("placeholder_removed", u)

\* A completion event for entry i is on the event bus.
CompletionPublished(i) ==
  \E k \in 1..Len(published) :
    /\ published[k].type \in {"extraction_completed", "extraction_found_nothing"}
    /\ published[k].entryId = i

\* C16: once the Worker has merged the extraction result of a note (its
\* updateNoteWithExtraction call has written the entry with status complete and
\* the Worker has gone on), a completion event for that note has been published.
C16_CompletionEventPublished ==
  \A l \in Loops :
    (loops[l].pc = "next" /\ loops[l].resp = "success"
       /\ StatusIs(loops[l].entryId, "complete"))
      => CompletionPublished(loops[l].entryId)

\* C17: a Repository call during which a read or a write of the note collection
\* failed ends with its failure value, and no call ends by throwing.
C17_StorageErrorGivesFailure ==
  user.pc = "done" =>
    /\ user.result \in {"success", "failure"}
    /\ (user.readFailed \/ ~user.wrote) => user.result = "failure"

\* C18: when saveNoteForProcessing has returned success:false to the capture flow,
\* the entry it built is not in the stored collection.
C18_FailedSaveAddsNothing ==
  (user.pc = "done" /\ user.op = "save" /\ user.result = "failure") => ~Stored(user.id)

\* C19: a mutating Repository call that wrote the note collection and then failed
\* to update the metadata record reports success.
C19_MetadataFailureStillSuccess ==
  (user.pc = "done" /\ user.wrote /\ user.metaFailed) => user.result = "success"

\* C20: a publish calls every callback subscribed at that moment with the event,
\* in subscription order, whichever of them throw, and returns normally, also
\* when the analytics capture throws.
C20_PublishReachesAll ==
  [][\A ev \in BusEvents :
       Publishes(ev) =>
         /\ Len(delivered') = Len(delivered) + Len(subscribers)
         /\ \A k \in 1..Len(subscribers) :
              /\ delivered'[Len(delivered) + k].callback = subscribers[k]
              /\ delivered'[Len(delivered) + k].event = ev
         /\ emitOutcome' = "returned"]_vars

\* C20 witness: one event was published to two subscribers, the first one threw,
\* the second one was called all the same and the publish returned.
C20_Witness ==
  /\ Len(published) = 1
  /\ Len(delivered) = 2
  /\ delivered[1].threw
  /\ delivered[2].callback # delivered[1].callback
  /\ emitOutcome = "returned"

\* The events callback c was called with, in call order.
RECURSIVE EventsOf(_, _)
EventsOf(calls, c) ==
  IF calls = <<>> THEN <<>>
  ELSE IF Head(calls).callback = c THEN <<Head(calls).event>> \o EventsOf(Tail(calls), c)
  ELSE EventsOf(Tail(calls), c)

\* C21: a publish adds the event to what a callback has received if and only if
\* the callback is subscribed at that moment (subscribed and not unsubscribed
\* since), at the end and so in publish order; outside a publish (at a subscribe
\* or an unsubscribe) no callback receives anything.
C21_ReceivesWhileSubscribed ==
  [][/\ \A ev \in BusEvents :
          Publishes(ev) =>
            \A c \in Callbacks :
              EventsOf(delivered', c) =
                IF c \in Range(subscribers) THEN Append(EventsOf(delivered, c), ev)
                                            ELSE EventsOf(delivered, c)
     /\ published' = published => delivered' = delivered]_vars

\* C21 witness: two different events were published; one callback received only
\* the first (it had unsubscribed before the second), another one only the second
\* (it subscribed after the first).
C21_Witness ==
  \E c, d \in Callbacks :
    /\ Len(published) = 2
    /\ published[1] # published[2]
    /\ EventsOf(delivered, c) = <<published[1]>>
    /\ EventsOf(delivered, d) = <<published[2]>>

\* C22: every stored entry whose processingStatus is processing has no foods and
\* no reactions.
C22_ProcessingHasNoFoods ==
  \A k \in 1..Len(foodLogs) :
    foodLogs[k].processingStatus = "processing" =>
      foodLogs[k].foods = <<>> /\ foodLogs[k].reactions = <<>>

\* C23: a stored entry has a processingError only if its processingStatus is failed.
C23_ErrorOnlyWhenFailed ==
  \A k \in 1..Len(foodLogs) :
    foodLogs[k].processingError # Null => foodLogs[k].processingStatus = "failed"

\* A Repository call made for entry i is at its write.
WritesFor(i) ==
  \/ user.pc = "write" /\ user.id = i
  \/ \E l \in Loops :
       loops[l].entryId = i /\ loops[l].pc \in {"upd_write", "mark1_write", "mark2_write"}

\* C24: a stored note is removed only by the write of a delete call for its id,
\* and its stored value changes only at the write of a call made for its id: the
\* concurrent calls for other ids leave it in the Repository with the latest
\* values written for it.
C24_StaysWithLatestValues ==
  [][\A i \in Ids :
       Stored(i) =>
         /\ ~Stored(i)' => (user.pc = "write" /\ user.op = "delete" /\ user.id = i)
         /\ (Stored(i)' /\ EntryOf(i)' # EntryOf(i)) => WritesFor(i)]_vars

\* C25: once deleteFoodLogEntry(id) has returned true, no entry with that id is in
\* the Repository (checked from the return of the call until its caller resumes).
C25_DeletedStaysDeleted ==
  (user.pc = "done" /\ user.op = "delete" /\ user.result = "success") => ~Stored(user.id)

\* C26: for a note it processes the Worker writes to the Repository once: when a
\* markNoteProcessingFailed call has written the entry of the note, no second
\* markNoteProcessingFailed call writes it again.
C26_OneWorkerWritePerNote ==
  [][\A l \in Loops :
       (loops[l].pc = "mark2_write" /\ foodLogs' = loops[l].snap /\ faults' = faults
          /\ loops'[l].pc = "next")
         => ~loops[l].marked]_vars

\* C27: between two synchronous steps of the service, when isProcessing is false
\* the pending set is empty.
C27_IdleMeansNothingPending ==
  ~isProcessing => processingQueue = <<>>

\* C27 witness: the worker is Idle again after a drain in which an id was enqueued
\* while another one was being processed, and both were taken.
C27_Witness ==
  /\ ~isProcessing
  /\ ActiveLoops = {}
  /\ \A i \in Ids : extractCalls[i] > 0

\* C28: a mutating Repository call that has reached its write returns to its
\* caller, also when the metadata record is absent and cannot be created.
C28_MutatingCallTerminates ==
  (user.pc = "write") ~> (user.pc = "done")

\* C29: the write of a saveNoteForProcessing call that returns success leaves the
\* collection with the new entry in front and every entry stored before behind it.
C29_SaveKeepsStoredEntries ==
  [][(user.pc = "write" /\ user.op = "save" /\ user'.pc = "done"
        /\ user'.result = "success")
       => /\ Len(foodLogs') = Len(foodLogs) + 1
          /\ foodLogs'[1].id = user.id
          /\ \A k \in 1..Len(foodLogs) : foodLogs[k] \in Range(Tail(foodLogs'))]_vars

\* The responses the claim accepts: an object with status success and extractedData,
\* or a one-element array whose element has values with status success and
\* extractedData.
Accepted(b) ==
  \/ ~b.isArray /\ b.status = "success" /\ b.hasData
  \/ b.isArray /\ b.len = 1 /\ b.hasValues /\ b.status = "success" /\ b.hasData

\* C30: when the race of processNote ends with a 2xx answer, the extraction
\* succeeds if and only if the body is of one of the two accepted shapes with
\* status success, and its result is then the extractedData of the body.
C30_AcceptedShapes ==
  [][\A l \in Loops :
       (loops[l].pc = "extract" /\ loops'[l].pc # "extract" /\ lastResponse'.kind = "ok")
         => /\ (loops'[l].resp = "success") <=> Accepted(lastResponse'.body)
            /\ loops'[l].resp = "success" => loops'[l].data = lastResponse'.body.data]_vars

====
